---- MODULE Spec2Model ----
(***************************************************************************)
(* ChatRAG: ingestion of chat transcripts into a vector index              *)
(* (complete_pipeline.py, s3_json_load_ingest) and question answering with *)
(* cited sources (search_wrapper.py, RAGCitationEngine).                   *)
(*                                                                         *)
(* JSON values are tagged records: a mapping is [type |-> "dict", fields], *)
(* a sequence is [type |-> "list", items], null is [type |-> "null"].      *)
(* Python's None is the string "None" wherever it is a metadata value      *)
(* (that is also how an f-string renders it).  A text is its length in     *)
(* characters; probabilities are in thousandths.                           *)
(***************************************************************************)
EXTENDS Integers, Sequences, FiniteSets, TLC

VARIABLES
    ipc,                \* position of s3_json_load_ingest
    lambda_response,    \* what invoke_lambda returned
    accessibility, accessibility_confidence_score,
    data,               \* the parsed JSON of the S3 object
    chats, docs, chunked_docs,
    caught,             \* the exception the try block caught ("none" if none)
    iresult,            \* what s3_json_load_ingest returned
    index,              \* the documents held by the vector store
    qpc,                \* position of RAGCitationEngine.query
    chat_user,          \* query's chat_user argument
    retrieved,          \* docs returned by _get_retrieved_docs
    ai_response,        \* the generated answer, a sequence of tokens
    references          \* what _extract_references returned

ivars == <<ipc, lambda_response, accessibility, accessibility_confidence_score,
           data, chats, docs, chunked_docs, caught, iresult>>
qvars == <<qpc, chat_user, retrieved, ai_response, references>>
vars == <<ivars, index, qvars>>

-----------------------------------------------------------------------------
(* Bounds of the model *)
MaxChats == 2        \* chat records in one ingested document
MaxTurns == 2        \* turns in one ingested document, over all its chats
MaxCandidates == 3   \* documents in the index when a query runs
MaxMarkers == 3      \* tokens in a generated answer

(* Program constants *)
chunk_size == 150
chunk_overlap == 30
Threshold == 900     \* 0.9, in thousandths
One == 1000          \* 1, in thousandths
k == 10

NONE == "None"
EnvChatEngine == "env_engine"
EnvChatUser == "env_user"

-----------------------------------------------------------------------------
(* JSON values and Python helpers *)
JNull == [type |-> "null"]
JList(s) == [type |-> "list", items |-> s]
JDict(f) == [type |-> "dict", fields |-> f]

IsDict(v) == v.type = "dict"
IsList(v) == v.type = "list"
HasKey(v, key) == key \in DOMAIN v.fields

\* dict.get(key, default) on a mapping given as a function
Get(f, key, default) == IF key \in DOMAIN f THEN f[key] ELSE default

Min(a, b) == IF a <= b THEN a ELSE b

\* All sequences over S of length exactly n
SeqsOfLen(S, n) == [1..n -> S]

-----------------------------------------------------------------------------
(* The classifier (invoke_lambda) and the accessibility decision *)

Category(name, p) == [name |-> name, probability |-> p]
FullResponse(p) ==
    JDict([statusCode |-> 200,
           body |-> [category_one |-> Category("personal", One - p),
                     category_two |-> Category("work", p)]])

\* Second-category probabilities the classifier returns, in thousandths
PValues == {0, Threshold - 1, Threshold, One}

\* What invoke_lambda can return: None when the call raised, else the payload
LambdaResponses ==
    {JNull, JDict(<<>>),
     JDict([statusCode |-> 500]),
     JDict([statusCode |-> 200, body |-> [category_one |-> Category("personal", 0)]]),
     JDict([statusCode |-> 200,
            body |-> [category_one |-> Category("personal", 0),
                      category_two |-> [name |-> "work"]]])}
    \cup {FullResponse(p) : p \in PValues}

\* `not lambda_response`: None or an empty mapping
Falsy(r) == r.type = "null" \/ (IsDict(r) /\ DOMAIN r.fields = {})

\* The subscripts of lines 45-50 all succeed
FieldsPresent(r) ==
    /\ IsDict(r)
    /\ "body" \in DOMAIN r.fields
    /\ {"category_one", "category_two"} \subseteq DOMAIN r.fields.body
    /\ \A c \in {"category_one", "category_two"} :
          {"probability", "name"} \subseteq DOMAIN r.fields.body[c]

\* Line 54 with a strict comparison
IsWorkStrict(p) == p > Threshold

\* Line 54
IsWork(p) == p >= Threshold

AccessibilityOf(p) == IF IsWork(p) THEN "work" ELSE "personal"
ConfidenceOf(p) == IF IsWork(p) THEN p ELSE One - p

-----------------------------------------------------------------------------
(* The documents an S3 object can hold *)

Turns ==
    {[turn_id |-> "t1", author |-> "user", turn_timestamp |-> "ts1", message |-> 390],
     [turn_id |-> "t2", author |-> "assistant", turn_timestamp |-> "ts2", message |-> 150],
     [author |-> "user"]}

ChatHeaders ==
    {[chat_id |-> "c1", chat_user |-> "u1", title |-> "T1"],
     [chat_id |-> "c2", title |-> "T2"]}

\* h with a "messages" entry m
WithMessages(h, m) ==
    [key \in DOMAIN h \cup {"messages"} |-> IF key = "messages" THEN m ELSE h[key]]

\* Chat records with exactly n turns; with none, the collection may also be
\* empty, null or missing
ChatsWith(n) ==
    {JDict(WithMessages(h, JList(m))) : h \in ChatHeaders, m \in SeqsOfLen(Turns, n)}
    \cup (IF n = 0
          THEN {JDict(h) : h \in ChatHeaders}
               \cup {JDict(WithMessages(h, JNull)) : h \in ChatHeaders}
          ELSE {})

\* Sequences of exactly n chat records holding at most t turns together
RECURSIVE ChatSeqs(_, _)
ChatSeqs(n, t) ==
    IF n = 0 THEN {<<>>}
    ELSE UNION {{<<c>> \o s : c \in ChatsWith(j), s \in ChatSeqs(n - 1, t - j)} :
                j \in 0..t}

\* The batches of n chat records holding at most MaxTurns turns together, as
\* pairs of a first record with j turns (none when n = 0) and the other records
FirstChats(n, j) ==
    IF n = 0 THEN (IF j = 0 THEN {<<>>} ELSE {}) ELSE {<<c>> : c \in ChatsWith(j)}

OtherChats(n, j) == IF n = 0 THEN {<<>>} ELSE ChatSeqs(n - 1, MaxTurns - j)

\* A chat record that also carries a "data" entry
WithData(c) ==
    JDict([key \in DOMAIN c.fields \cup {"data"} |->
              IF key = "data" THEN JList(<<>>) ELSE c.fields[key]])

\* The JSON documents built on the batch b: wrapped, as a list, and for a
\* single record bare; on no batch, null and a wrapper of null
DocumentsOn(b) ==
    {JDict([data |-> JList(b)]), JList(b)}
    \cup (IF Len(b) = 1
          THEN {b[1]} \cup (IF HasKey(b[1], "messages") THEN {WithData(b[1])} ELSE {})
          ELSE {})
    \cup (IF b = <<>> THEN {JNull, JDict([data |-> JNull])} ELSE {})

-----------------------------------------------------------------------------
(* s3_json_load_ingest, lines 82-150 *)

\* Lines 85-99: the sequence of chats, or "unrecognized"
Recognized(d) ==
    \/ IsDict(d) /\ HasKey(d, "messages")
    \/ IsDict(d) /\ HasKey(d, "data")
    \/ IsList(d)

\* Lines 85-95 with the "data" entry tried first
NormalizeDataFirst(d) ==
    IF IsDict(d) /\ HasKey(d, "data") THEN d.fields["data"]
    ELSE IF IsDict(d) /\ HasKey(d, "messages") THEN JList(<<d>>)
    ELSE d

NormalizeChats(d) ==
    IF IsDict(d) /\ HasKey(d, "messages") THEN JList(<<d>>)
    ELSE IF IsDict(d) /\ HasKey(d, "data") THEN d.fields["data"]
    ELSE d

\* Lines 113-124
Meta(chat, msg, acc, score) ==
    [chat_engine |-> Get(chat, "chat_engine", EnvChatEngine),
     chat_account |-> Get(chat, "chat_user", EnvChatUser),
     chat_id |-> Get(chat, "chat_id", NONE),
     title |-> Get(chat, "title", NONE),
     chat_creation_time |-> Get(chat, "chat_creation_time", NONE),
     turn_id |-> Get(msg, "turn_id", NONE),
     author |-> Get(msg, "author", NONE),
     turn_timestamp |-> Get(msg, "turn_timestamp", NONE),
     accessibility |-> acc,
     accessibility_confidence_score |-> score]

\* Lines 109-126: one Document per message
RECURSIVE UnitsOfChat(_, _, _, _)
UnitsOfChat(chat, msgs, acc, score) ==
    IF msgs = <<>> THEN <<>>
    ELSE <<[page_content |-> Get(Head(msgs), "message", 0),
            metadata |-> Meta(chat, Head(msgs), acc, score)]>>
         \o UnitsOfChat(chat, Tail(msgs), acc, score)

\* Lines 104-126, when no iteration raises
RECURSIVE FlattenChats(_, _, _)
FlattenChats(cs, acc, score) ==
    IF cs = <<>> THEN <<>>
    ELSE (IF ~HasKey(Head(cs), "messages") THEN <<>>
          ELSE UnitsOfChat(Head(cs).fields, Head(cs).fields["messages"].items, acc, score))
         \o FlattenChats(Tail(cs), acc, score)

\* Lines 104-109: iterating something that is no sequence raises TypeError
FlattenRaises(c) ==
    \/ ~IsList(c)
    \/ \E i \in 1..Len(c.items) :
          \/ ~IsDict(c.items[i])
          \/ HasKey(c.items[i], "messages") /\ ~IsList(c.items[i].fields["messages"])

\* RecursiveCharacterTextSplitter(chunk_size, chunk_overlap).split_text on a text
\* of n characters without separators: segments <<start, length>>
SplitCount(n) ==
    IF n = 0 THEN 0
    ELSE IF n <= chunk_size THEN 1
    ELSE 1 + ((n - chunk_size) + (chunk_size - chunk_overlap) - 1)
                \div (chunk_size - chunk_overlap)

SplitText(n) ==
    [i \in 1..SplitCount(n) |->
        <<(i - 1) * (chunk_size - chunk_overlap),
          Min(chunk_size, n - (i - 1) * (chunk_size - chunk_overlap))>>]

\* Line 149: f"{chat_id}::{turn_id}::{i}"
ChunkId(md, i) == md["chat_id"] \o "::" \o md["turn_id"] \o "::" \o ToString(i)

\* Lines 147-149 with the index counted from one
ChunkMetaOneBased(md, i) ==
    [key \in DOMAIN md \cup {"chunk_index", "chunk_id"} |->
        IF key = "chunk_index" THEN i + 1
        ELSE IF key = "chunk_id" THEN ChunkId(md, i + 1)
        ELSE md[key]]

\* Lines 147-149: a copy of the unit's metadata with the two chunk fields
ChunkMeta(md, i) ==
    [key \in DOMAIN md \cup {"chunk_index", "chunk_id"} |->
        IF key = "chunk_index" THEN i
        ELSE IF key = "chunk_id" THEN ChunkId(md, i)
        ELSE md[key]]

\* Lines 145-150 for one unit
ChunksOfUnit(d) ==
    [i \in 1..SplitCount(d.page_content) |->
        [page_content |-> SplitText(d.page_content)[i],
         metadata |-> ChunkMeta(d.metadata, i - 1)]]

\* Lines 144-150
RECURSIVE ChunkDocs(_)
ChunkDocs(ds) ==
    IF ds = <<>> THEN <<>>
    ELSE ChunksOfUnit(Head(ds)) \o ChunkDocs(Tail(ds))

-----------------------------------------------------------------------------
(* s3_json_load_ingest as steps *)

IngestReturns(value, exc) ==
    /\ ipc' = "done"
    /\ iresult' = value
    /\ caught' = exc

\* Lines 39-64: classify; a falsy response returns [], a missing field raises
\* outside any try block
InvokeLambda ==
    /\ ipc = "start"
    /\ \E r \in LambdaResponses :
          /\ lambda_response' = r
          /\ IF Falsy(r)
             THEN /\ IngestReturns("[]", "none")
                  /\ UNCHANGED <<accessibility, accessibility_confidence_score>>
             ELSE IF ~FieldsPresent(r)
             THEN /\ ipc' = "raised"
                  /\ iresult' = "KeyError"
                  /\ UNCHANGED <<caught, accessibility, accessibility_confidence_score>>
             ELSE /\ accessibility' = AccessibilityOf(r.fields.body.category_two.probability)
                  /\ accessibility_confidence_score' =
                        ConfidenceOf(r.fields.body.category_two.probability)
                  /\ ipc' = "fetch"
                  /\ UNCHANGED <<caught, iresult>>
    /\ UNCHANGED <<data, chats, docs, chunked_docs, index, qvars>>

\* Lines 76-78 raising: the object cannot be fetched, or is no JSON
FetchFails ==
    /\ ipc = "fetch"
    /\ \E exc \in {"ClientError", "JSONDecodeError"} : IngestReturns("[]", exc)
    /\ UNCHANGED <<lambda_response, accessibility, accessibility_confidence_score,
                   data, chats, docs, chunked_docs, index, qvars>>

\* Lines 76-99: load the object and pick the sequence of chats
LoadAndNormalize ==
    /\ ipc = "fetch"
    /\ \E n \in 0..MaxChats, j \in 0..MaxTurns :
       \E first \in FirstChats(n, j), others \in OtherChats(n, j) :
       \E d \in DocumentsOn(first \o others) :
          /\ data' = d
          /\ IF Recognized(d)
             THEN /\ chats' = NormalizeChats(d)
                  /\ ipc' = "flatten"
                  /\ UNCHANGED <<iresult, caught>>
             ELSE /\ IngestReturns("[]", "none")
                  /\ UNCHANGED chats
    /\ UNCHANGED <<lambda_response, accessibility, accessibility_confidence_score,
                   docs, chunked_docs, index, qvars>>

\* Lines 101-132: one Document per turn of every chat that has messages
Flatten ==
    /\ ipc = "flatten"
    /\ IF FlattenRaises(chats)
       THEN /\ IngestReturns("[]", "TypeError")
            /\ UNCHANGED docs
       ELSE /\ docs' = FlattenChats(chats.items, accessibility,
                                    accessibility_confidence_score)
            /\ IF docs' = <<>>
               THEN IngestReturns("[]", "none")
               ELSE ipc' = "chunk" /\ UNCHANGED <<iresult, caught>>
    /\ UNCHANGED <<lambda_response, accessibility, accessibility_confidence_score,
                   data, chats, chunked_docs, index, qvars>>

\* Lines 134-150
Chunk ==
    /\ ipc = "chunk"
    /\ chunked_docs' = ChunkDocs(docs)
    /\ ipc' = "write"
    /\ UNCHANGED <<lambda_response, accessibility, accessibility_confidence_score,
                   data, chats, docs, caught, iresult, index, qvars>>

\* Lines 152-176: the index takes the chunks; the function ends without a return
IndexWrite ==
    /\ ipc = "write"
    /\ index' = index \o chunked_docs
    /\ IngestReturns("None", "none")
    /\ UNCHANGED <<lambda_response, accessibility, accessibility_confidence_score,
                   data, chats, docs, chunked_docs, qvars>>

\* Lines 156-180: index creation or the write raises
IndexWriteFails ==
    /\ ipc = "write"
    /\ IngestReturns("[]", "PineconeException")
    /\ UNCHANGED <<lambda_response, accessibility, accessibility_confidence_score,
                   data, chats, docs, chunked_docs, index, qvars>>

IngestInit ==
    /\ ipc = "start"
    /\ lambda_response = JNull
    /\ accessibility = "unset"
    /\ accessibility_confidence_score = 0
    /\ data = JNull
    /\ chats = JNull
    /\ docs = <<>>
    /\ chunked_docs = <<>>
    /\ caught = "none"
    /\ iresult = "pending"
    /\ index = <<>>
    /\ qpc = "idle"
    /\ chat_user = ""
    /\ retrieved = <<>>
    /\ ai_response = <<>>
    /\ references = <<>>

IngestNext ==
    \/ InvokeLambda
    \/ FetchFails
    \/ LoadAndNormalize
    \/ Flatten
    \/ Chunk
    \/ IndexWrite
    \/ IndexWriteFails

SpecIngest == IngestInit /\ [][IngestNext]_vars

-----------------------------------------------------------------------------
(* RAGCitationEngine: retrieval, lines 59-71 *)

\* The Pinecone filter of lines 63-65 applied to one stored document
MatchesFilter(doc, user) ==
    \/ user = ""
    \/ "chat_user" \in DOMAIN doc.metadata /\ doc.metadata["chat_user"] = user

Matching(store, user) == {i \in 1..Len(store) : MatchesFilter(store[i], user)}

\* similarity_search(query, k, filter): the k best matching documents, best
\* first; which are best depends on the query
Rankings(store, user, limit) ==
    {r \in [1..Min(limit, Cardinality(Matching(store, user))) -> Matching(store, user)] :
        \A i, j \in DOMAIN r : i # j => r[i] # r[j]}

GetRetrievedDocs(store, ranking) == [i \in DOMAIN ranking |-> store[ranking[i]]]

-----------------------------------------------------------------------------
(* RAGCitationEngine: citation extraction, lines 82-115 *)

\* A generated answer is a sequence of tokens; a token is an opening
\* character, a body of characters and a closing character
Token(open, body, close) == [open |-> open, body |-> body, close |-> close]

DigitChars == {"0", "1", "2", "3", "4", "5", "6", "7", "8", "9"}
DigitValue(c) ==
    CASE c = "0" -> 0 [] c = "1" -> 1 [] c = "2" -> 2 [] c = "3" -> 3 [] c = "4" -> 4
      [] c = "5" -> 5 [] c = "6" -> 6 [] c = "7" -> 7 [] c = "8" -> 8 [] c = "9" -> 9

Tokens ==
    {Token("[", <<"1">>, "]"), Token("FW[", <<"1">>, "FW]"),
     Token("[", <<"0", "1">>, "]"), Token("[", <<"3">>, "]"),
     Token("[", <<"0">>, "]"), Token("[", <<"5">>, "]"),
     Token("[", <<"a">>, "]")}

Answers == UNION {SeqsOfLen(Tokens, n) : n \in 0..MaxMarkers}

\* The pattern of line 87: either bracket style around one or more digits
IsMarker(t) ==
    /\ t.open \in {"[", "FW["}
    /\ t.close \in {"]", "FW]"}
    /\ t.body # <<>>
    /\ \A i \in DOMAIN t.body : t.body[i] \in DigitChars

\* Line 87: set(re.findall(...)), the distinct digit strings of the markers
CitedIndices(text) == {text[i].body : i \in {j \in DOMAIN text : IsMarker(text[j])}}

\* int() of a digit string
RECURSIVE IntOf(_)
IntOf(digits) ==
    IF digits = <<>> THEN 0
    ELSE 10 * IntOf(SubSeq(digits, 1, Len(digits) - 1)) + DigitValue(digits[Len(digits)])

\* Line 100: f"[{index_str}]"
SourceId(index_str) == <<"[">> \o index_str \o <<"]">>

\* re.search(r'\d+', s).group(): the first run of digits of s
RECURSIVE DigitPrefix(_)
DigitPrefix(s) ==
    IF s = <<>> \/ Head(s) \notin DigitChars THEN <<>>
    ELSE <<Head(s)>> \o DigitPrefix(Tail(s))

RECURSIVE FirstDigitRun(_)
FirstDigitRun(s) ==
    IF s = <<>> THEN <<>>
    ELSE IF Head(s) \in DigitChars THEN DigitPrefix(s)
    ELSE FirstDigitRun(Tail(s))

\* Line 113: the sort key
SortKey(ref) == IntOf(FirstDigitRun(ref.source_id))

\* Line 96 with the lower bound strict
InRangeStrict(idx, candidates) == 0 < idx /\ idx < Len(candidates)

\* Line 96
InRange(idx, candidates) == 0 <= idx /\ idx < Len(candidates)

\* Lines 99-105
RefData(index_str, doc) ==
    [source_id |-> SourceId(index_str),
     title |-> Get(doc.metadata, "title", "Unknown Title"),
     chat_id |-> Get(doc.metadata, "chat_id", "N/A"),
     turn_id |-> Get(doc.metadata, "turn_id", "N/A"),
     timestamp |-> Get(doc.metadata, "timestamp", "N/A")]

\* Lines 90-110, the set iterated in the given order
RECURSIVE CollectRefs(_, _)
CollectRefs(order, candidates) ==
    IF order = <<>> THEN <<>>
    ELSE (IF InRange(IntOf(Head(order)) - 1, candidates)
          THEN <<RefData(Head(order), candidates[IntOf(Head(order))])>>
          ELSE <<>>)
         \o CollectRefs(Tail(order), candidates)

\* list.sort(key=...): stable, ascending by key
RECURSIVE InsertByKey(_, _)
InsertByKey(sorted, ref) ==
    IF sorted = <<>> THEN <<ref>>
    ELSE IF SortKey(Head(sorted)) <= SortKey(ref)
    THEN <<Head(sorted)>> \o InsertByKey(Tail(sorted), ref)
    ELSE <<ref>> \o sorted

\* Line 113 left out
Unsorted(refs) == refs

RECURSIVE SortRefs(_)
SortRefs(refs) ==
    IF refs = <<>> THEN <<>>
    ELSE InsertByKey(SortRefs(SubSeq(refs, 1, Len(refs) - 1)), refs[Len(refs)])

\* The orders in which a set can be iterated
Orders(S) ==
    {o \in [1..Cardinality(S) -> S] : \A i, j \in DOMAIN o : i # j => o[i] # o[j]}

ExtractReferencesOf(order, candidates) == SortRefs(CollectRefs(order, candidates))

-----------------------------------------------------------------------------
(* RAGCitationEngine.query as steps, lines 117-140 *)

\* Line 123
Retrieve ==
    /\ qpc = "idle"
    /\ \E u \in {"", "u1"} :
          /\ chat_user' = u
          /\ \E r \in Rankings(index, u, k) : retrieved' = GetRetrievedDocs(index, r)
    /\ qpc' = "generate"
    /\ UNCHANGED <<ivars, index, ai_response, references>>

\* Lines 126-132: the model's answer is any text
Generate ==
    /\ qpc = "generate"
    /\ ai_response' \in Answers
    /\ qpc' = "extract"
    /\ UNCHANGED <<ivars, index, chat_user, retrieved, references>>

\* Lines 135-140
ExtractReferences ==
    /\ qpc = "extract"
    /\ \E o \in Orders(CitedIndices(ai_response)) :
          references' = ExtractReferencesOf(o, retrieved)
    /\ qpc' = "done"
    /\ UNCHANGED <<ivars, index, chat_user, retrieved, ai_response>>

\* Lines 123 and 129: the store or the model raises, and so does query
QueryRaises ==
    /\ qpc \in {"idle", "generate"}
    /\ qpc' = "raised"
    /\ UNCHANGED <<ivars, index, chat_user, retrieved, ai_response, references>>

\* A batch of one chat of user u1 with n one-chunk turns
SampleTurn(i) ==
    [turn_id |-> "t" \o ToString(i), author |-> "user",
     turn_timestamp |-> "ts" \o ToString(i), message |-> chunk_size]

SampleBatch(n) ==
    JList(<<JDict([chat_id |-> "c1", chat_user |-> "u1", title |-> "T1",
                   messages |-> JList([i \in 1..n |-> SampleTurn(i)])])>>)

\* The state after s3_json_load_ingest has ingested SampleBatch(n)
Ingested(n) ==
    /\ ipc = "done"
    /\ lambda_response = FullResponse(One)
    /\ accessibility = AccessibilityOf(One)
    /\ accessibility_confidence_score = ConfidenceOf(One)
    /\ data = SampleBatch(n)
    /\ chats = NormalizeChats(data)
    /\ docs = FlattenChats(chats.items, accessibility, accessibility_confidence_score)
    /\ chunked_docs = IF docs = <<>> THEN <<>> ELSE ChunkDocs(docs)
    /\ caught = "none"
    /\ iresult = IF docs = <<>> THEN "[]" ELSE "None"
    /\ index = chunked_docs

QueryInit ==
    /\ \E n \in 0..MaxCandidates : Ingested(n)
    /\ qpc = "idle"
    /\ chat_user = ""
    /\ retrieved = <<>>
    /\ ai_response = <<>>
    /\ references = <<>>

QueryNext ==
    \/ Retrieve
    \/ Generate
    \/ ExtractReferences
    \/ QueryRaises

SpecQuery == QueryInit /\ [][QueryNext]_vars

-----------------------------------------------------------------------------
(* Citation extraction: C1, C2, C3 *)

MarkerValue(ref) == IntOf(SubSeq(ref.source_id, 2, Len(ref.source_id) - 1))

\* C1: the list returned by _extract_references holds no two citations with
\* the same numeric marker value, whatever the bracket style or the spelling
\* of the digits in the answer.
C1_NoDuplicateMarkerValues ==
    qpc = "done" =>
        \A i, j \in DOMAIN references :
            i # j => MarkerValue(references[i]) # MarkerValue(references[j])

\* C2: a marker of value n yields a citation iff 1 <= n <= len(candidates), the
\* citation carries the title, chat_id and turn_id of candidate n (1-based),
\* and every citation comes from a marker of the answer.
C2_InRangeMarkersResolve ==
    qpc = "done" =>
        /\ \A body \in CitedIndices(ai_response) :
              (\E i \in DOMAIN references : references[i].source_id = SourceId(body))
                  <=> (1 <= IntOf(body) /\ IntOf(body) <= Len(retrieved))
        /\ \A i \in DOMAIN references :
              /\ \E body \in CitedIndices(ai_response) :
                    references[i].source_id = SourceId(body)
              /\ MarkerValue(references[i]) \in 1..Len(retrieved)
              /\ \A key \in {"title", "chat_id", "turn_id"} :
                    references[i][key] =
                        retrieved[MarkerValue(references[i])].metadata[key]
        /\ Len(references) =
              Cardinality({b \in CitedIndices(ai_response) : IntOf(b) \in 1..Len(retrieved)})

\* An answer citing a source that exists and one that does not, over
\* candidates ranked otherwise than they are stored
C2_Witness ==
    /\ qpc = "done"
    /\ Len(retrieved) = 2
    /\ retrieved[1] = index[2]
    /\ ai_response = <<Token("[", <<"5">>, "]"), Token("[", <<"0">>, "]"),
                       Token("FW[", <<"1">>, "FW]")>>
    /\ Len(references) = 1
    /\ references[1].turn_id = "t2"

\* C3: the citations are in ascending order of marker value, whatever the
\* order of the markers in the answer.
C3_SortedByMarkerValue ==
    qpc = "done" =>
        \A i, j \in DOMAIN references :
            i < j => MarkerValue(references[i]) <= MarkerValue(references[j])

\* The answer cites [3] before [1] and the citations come out as [1], [3]
C3_Witness ==
    /\ qpc = "done"
    /\ Len(retrieved) = 3
    /\ ai_response = <<Token("[", <<"3">>, "]"), Token("[", <<"1">>, "]")>>
    /\ Len(references) = 2
    /\ references[1].source_id = <<"[", "1", "]">>
    /\ references[2].source_id = <<"[", "3", "]">>

-----------------------------------------------------------------------------
(* Ingestion: C4 to C9 *)

\* Positions of s3_json_load_ingest
Classified == ipc \in {"fetch", "flatten", "chunk", "write"}
                 \/ (ipc = "done" /\ ~Falsy(lambda_response))
Loaded == ipc \in {"flatten", "chunk", "write"}
             \/ (ipc = "done" /\ ~Falsy(lambda_response)
                    /\ caught \notin {"ClientError", "JSONDecodeError"})
Flattened == ipc \in {"chunk", "write"} \/ (Loaded /\ ipc = "done" /\ Recognized(data))
Chunked == ipc = "write" \/ (ipc = "done" /\ iresult = "None")
              \/ (ipc = "done" /\ caught = "PineconeException")

\* C4: the chunk_id values of all chunks of one ingested document are
\* pairwise distinct.
C4_ChunkIdsDistinct ==
    Chunked =>
        \A i, j \in DOMAIN chunked_docs :
            i # j => chunked_docs[i].metadata["chunk_id"] # chunked_docs[j].metadata["chunk_id"]

\* C5: every failure of an external call makes s3_json_load_ingest return the
\* empty result; none leaves it as an exception.
C5_FailuresReturnEmpty ==
    /\ ipc # "raised"
    /\ (ipc = "done" /\ (caught # "none" \/ ~FieldsPresent(lambda_response)))
          => iresult = "[]"

\* C6: with second-category probability p the label is "work" with confidence
\* p iff p >= 0.90, else "personal" with confidence 1 - p, and every content
\* unit and chunk of the call carries that pair.
C6_AccessibilityPolicy ==
    (Classified /\ FieldsPresent(lambda_response)) =>
        LET p == lambda_response.fields.body.category_two.probability IN
        /\ p >= Threshold => accessibility = "work" /\ accessibility_confidence_score = p
        /\ p < Threshold =>
              accessibility = "personal" /\ accessibility_confidence_score = One - p
        /\ \A i \in DOMAIN docs :
              /\ docs[i].metadata["accessibility"] = accessibility
              /\ docs[i].metadata["accessibility_confidence_score"]
                    = accessibility_confidence_score
        /\ \A i \in DOMAIN chunked_docs :
              /\ chunked_docs[i].metadata["accessibility"] = accessibility
              /\ chunked_docs[i].metadata["accessibility_confidence_score"]
                    = accessibility_confidence_score

\* The probability is exactly 0.90 and the chunks are labelled "work"
C6_Witness ==
    /\ ipc = "write"
    /\ lambda_response = FullResponse(Threshold)
    /\ Len(docs) = 2
    /\ chunked_docs # <<>>
    /\ \A i \in DOMAIN chunked_docs : chunked_docs[i].metadata["accessibility"] = "work"

\* The content units the document d yields
UnitsOfDocument(d, acc, score) ==
    IF ~Recognized(d) \/ FlattenRaises(NormalizeChats(d)) THEN <<>>
    ELSE FlattenChats(NormalizeChats(d).items, acc, score)

\* C7: the chats are picked by strict priority ("messages" entry, then "data"
\* entry, then a list; anything else returns the empty result without
\* raising), and a single chat yields the same content units bare, wrapped
\* as {"data": [chat]} and as the list [chat].
C7_ShapePriority ==
    /\ Loaded =>
          /\ (IsDict(data) /\ HasKey(data, "messages")) => chats = JList(<<data>>)
          /\ (IsDict(data) /\ ~HasKey(data, "messages") /\ HasKey(data, "data"))
                => chats = data.fields["data"]
          /\ IsList(data) => chats = data
          /\ (~IsList(data) /\ ~(IsDict(data) /\ HasKey(data, "messages"))
                 /\ ~(IsDict(data) /\ HasKey(data, "data")))
                => (ipc = "done" /\ iresult = "[]" /\ caught = "none" /\ docs = <<>>)
    /\ (Flattened /\ IsDict(data) /\ HasKey(data, "messages")) =>
          /\ docs = UnitsOfDocument(JDict([data |-> JList(<<data>>)]), accessibility,
                                    accessibility_confidence_score)
          /\ docs = UnitsOfDocument(JList(<<data>>), accessibility,
                                    accessibility_confidence_score)

\* A bare chat that has both a "messages" and a "data" entry yields its turns
C7_Witness ==
    /\ ipc = "chunk"
    /\ IsDict(data) /\ HasKey(data, "messages") /\ HasKey(data, "data")
    /\ Len(docs) = 2

\* The records of a batch that have a usable turn collection
Usable(chat) ==
    IsDict(chat) /\ HasKey(chat, "messages") /\ IsList(chat.fields["messages"])

\* C8: a record without a usable messages collection is skipped and never
\* aborts the call; the content units are exactly the turns of the other
\* records, in chat order then turn order.
C8_UnusableRecordsSkipped ==
    (Flattened /\ IsList(chats)) =>
        /\ caught # "TypeError"
        /\ docs = FlattenChats(SelectSeq(chats.items, Usable), accessibility,
                               accessibility_confidence_score)

\* Number of chunks that precede those of unit u
RECURSIVE ChunksBefore(_)
ChunksBefore(u) ==
    IF u = 1 THEN 0 ELSE ChunksBefore(u - 1) + SplitCount(docs[u - 1].page_content)

\* C9: the chunks of each content unit carry chunk_index 0, 1, ..., m-1 in
\* order, restarting at 0 for each unit; a chunk's metadata is the unit's on
\* every inherited key plus chunk_index and chunk_id; the unit's metadata
\* gains no key.
C9_ChunkIndexContiguous ==
    Chunked =>
        /\ Len(chunked_docs) = ChunksBefore(Len(docs) + 1)
        /\ \A u \in DOMAIN docs :
              /\ "chunk_index" \notin DOMAIN docs[u].metadata
              /\ "chunk_id" \notin DOMAIN docs[u].metadata
              /\ \A i \in 1..SplitCount(docs[u].page_content) :
                    LET md == chunked_docs[ChunksBefore(u) + i].metadata IN
                    /\ md["chunk_index"] = i - 1
                    /\ DOMAIN md = DOMAIN docs[u].metadata \cup {"chunk_index", "chunk_id"}
                    /\ \A key \in DOMAIN docs[u].metadata : md[key] = docs[u].metadata[key]

\* Two turns of three chunks each have been chunked
C9_Witness ==
    /\ ipc = "write"
    /\ Len(docs) = 2
    /\ Len(chunked_docs) = 6
    /\ chunked_docs[4].metadata["chunk_index"] = 0
    /\ chunked_docs[6].metadata["chunk_index"] = 2

-----------------------------------------------------------------------------
(* The metadata schema shared by ingestion and query: C10 *)

\* C10: a chunk ingested from a chat of user u matches a query filtered to u,
\* and a citation carries the turn timestamp of the chunk it cites.
C10_SharedMetadataSchema ==
    /\ (qpc \in {"generate", "extract", "done"} /\ chat_user # "") =>
          \A i \in DOMAIN index :
              index[i].metadata["chat_account"] = chat_user
                  => \E j \in DOMAIN retrieved : retrieved[j] = index[i]
    /\ qpc = "done" =>
          \A i \in DOMAIN references :
              references[i].timestamp =
                  retrieved[MarkerValue(references[i])].metadata["turn_timestamp"]

====
